---- MODULE Spec2Model ----
(***************************************************************************)
(* Movie catalog service (backend/app.py): the movies table, the           *)
(* before_request seeding hook, payload validation and the CRUD and list   *)
(* handlers.                                                               *)
(*                                                                         *)
(* Text is a sequence of one-character strings, so that strip(), len(),    *)
(* int(), str(), f-string formatting and LIKE are computed character by    *)
(* character.  A JSON value is a record tagged by t: "absent" (key not in  *)
(* the object), "null", "int" (field n) or "str" (field s).                *)
(***************************************************************************)
EXTENDS Integers, Sequences, FiniteSets, TLC

VARIABLES
    store,          \* movies table: id -> row
    nextId,         \* AUTO_INCREMENT counter of movies.id
    now,            \* datetime.utcnow(): one tick for each request served
    reqNo,          \* number of requests started
    last,           \* the request being answered
    resp,           \* its response
    prev,           \* the request answered before it: op, id, status
    hookStart,      \* the table when the request's before_request hook started
    handlerStart,   \* the table when the request's route handler started
    seen,           \* every id that existed up to the start of the route handler
    pc,             \* overlapping requests: position of each worker
    cnt             \* overlapping requests: the count each worker's hook read

vars == <<store, nextId, now, reqNo, last, resp, prev, hookStart, handlerStart,
          seen, pc, cnt>>

----------------------------------------------------------------------------
(* Bounds *)

MaxRequests == 3
MaxListRequests == 2
MaxConcRequests == 3
NumWorkers == 2

----------------------------------------------------------------------------
(* Characters and text *)

UpperLetters == <<"A", "B", "C", "D", "E", "F", "G", "H", "I", "J", "K", "L", "M",
                  "N", "O", "P", "Q", "R", "S", "T", "U", "V", "W", "X", "Y", "Z">>
LowerLetters == <<"a", "b", "c", "d", "e", "f", "g", "h", "i", "j", "k", "l", "m",
                  "n", "o", "p", "q", "r", "s", "t", "u", "v", "w", "x", "y", "z">>
DigitChars == <<"0", "1", "2", "3", "4", "5", "6", "7", "8", "9">>

\* The characters in use, in code-point order.
Alphabet == <<" ", "%", "+", "-", ".", "/">> \o DigitChars \o <<":", "=", "?">>
            \o UpperLetters \o <<"_">> \o LowerLetters

Chars == {Alphabet[i] : i \in DOMAIN Alphabet}

Code == [c \in Chars |-> CHOOSE i \in DOMAIN Alphabet : Alphabet[i] = c]

IsSpace(c) == c = " "

IsDigit(c) == \E i \in DOMAIN DigitChars : DigitChars[i] = c

DigitVal(c) == (CHOOSE i \in DOMAIN DigitChars : DigitChars[i] = c) - 1

\* str.lower() on one character
LowerChar(c) ==
    IF \E i \in DOMAIN UpperLetters : UpperLetters[i] = c
    THEN LowerLetters[CHOOSE i \in DOMAIN UpperLetters : UpperLetters[i] = c]
    ELSE c

\* str.lower()
RECURSIVE LowerStr(_)
LowerStr(s) == IF s = <<>> THEN <<>> ELSE <<LowerChar(Head(s))>> \o LowerStr(Tail(s))

RECURSIVE LStrip(_)
LStrip(s) == IF s # <<>> /\ IsSpace(Head(s)) THEN LStrip(Tail(s)) ELSE s

RECURSIVE RStrip(_)
RStrip(s) ==
    IF s # <<>> /\ IsSpace(s[Len(s)]) THEN RStrip(SubSeq(s, 1, Len(s) - 1)) ELSE s

\* str.strip()
Strip(s) == RStrip(LStrip(s))

RECURSIVE NatStr(_)
NatStr(n) ==
    IF n < 10 THEN <<DigitChars[n + 1]>>
    ELSE NatStr(n \div 10) \o <<DigitChars[(n % 10) + 1]>>

\* str(n) and the {i} of an f-string, for an integer
IntStr(n) == IF n < 0 THEN <<"-">> \o NatStr(0 - n) ELSE NatStr(n)

RECURSIVE DigitsVal(_)
DigitsVal(s) ==
    IF s = <<>> THEN 0
    ELSE 10 * DigitsVal(SubSeq(s, 1, Len(s) - 1)) + DigitVal(s[Len(s)])

\* int(s) for text: surrounding whitespace, an optional sign, decimal digits.
\* ok = FALSE stands for the ValueError.
ParseInt(s) ==
    LET t == Strip(s)
        signed == t # <<>> /\ t[1] \in {"+", "-"}
        body == IF signed THEN Tail(t) ELSE t
        good == body # <<>> /\ \A i \in DOMAIN body : IsDigit(body[i])
    IN  IF ~good THEN [ok |-> FALSE, val |-> 0]
        ELSE [ok |-> TRUE,
              val |-> IF signed /\ t[1] = "-" THEN 0 - DigitsVal(body)
                      ELSE DigitsVal(body)]

RECURSIVE StrLessFrom(_, _, _)
StrLessFrom(a, b, i) ==
    IF i > Len(b) THEN FALSE
    ELSE IF i > Len(a) THEN TRUE
    ELSE IF a[i] = b[i] THEN StrLessFrom(a, b, i + 1)
    ELSE Code[a[i]] < Code[b[i]]

\* a < b in the column's (binary) collation
StrLess(a, b) == StrLessFrom(a, b, 1)

RECURSIVE LikeFrom(_, _, _, _)
LikeFrom(s, p, i, j) ==
    IF j > Len(p) THEN i > Len(s)
    ELSE IF p[j] = "%"
         THEN LikeFrom(s, p, i, j + 1) \/ (i <= Len(s) /\ LikeFrom(s, p, i + 1, j))
    ELSE /\ i <= Len(s)
         /\ (p[j] = "_" \/ p[j] = s[i])
         /\ LikeFrom(s, p, i + 1, j + 1)

\* column.ilike(pattern): lower(column) LIKE lower(pattern)
ILike(s, p) == LikeFrom(LowerStr(s), LowerStr(p), 1, 1)

----------------------------------------------------------------------------
(* JSON values *)

Absent == [t |-> "absent"]
Null == [t |-> "null"]
JInt(n) == [t |-> "int", n |-> n]
JStr(s) == [t |-> "str", s |-> s]

Fields == {"title", "genre", "rating", "imageUrl"}

\* key in data
Has(data, f) == data[f].t # "absent"

\* str(data.get(f))
PyStr(v) ==
    IF v.t = "str" THEN v.s
    ELSE IF v.t = "int" THEN IntStr(v.n)
    ELSE <<"N", "o", "n", "e">>

\* (data.get(f) or ""): a falsy value (None, "", 0) gives ""
OrEmpty(v) ==
    IF v.t \in {"absent", "null"} THEN JStr(<<>>)
    ELSE IF v.t = "int" /\ v.n = 0 THEN JStr(<<>>)
    ELSE v

\* int(v); ok = FALSE stands for the ValueError or TypeError
PyInt(v) ==
    IF v.t = "int" THEN [ok |-> TRUE, val |-> v.n]
    ELSE IF v.t = "str" THEN ParseInt(v.s)
    ELSE [ok |-> FALSE, val |-> 0]

----------------------------------------------------------------------------
(* The movies table *)

MinCount == 30

Genres == << <<"A", "c", "t", "i", "o", "n">>,
             <<"C", "o", "m", "e", "d", "y">>,
             <<"D", "r", "a", "m", "a">>,
             <<"H", "o", "r", "r", "o", "r">>,
             <<"S", "c", "i", "-", "F", "i">>,
             <<"R", "o", "m", "a", "n", "c", "e">>,
             <<"T", "h", "r", "i", "l", "l", "e", "r">>,
             <<"A", "n", "i", "m", "a", "t", "i", "o", "n">> >>

UrlPrefix == <<"h", "t", "t", "p", "s", ":", "/", "/", "v", "i", "a", ".", "p", "l",
               "a", "c", "e", "h", "o", "l", "d", "e", "r", ".", "c", "o", "m", "/",
               "3", "0", "0", "x", "2", "0", "0", ".", "p", "n", "g", "?", "t", "e",
               "x", "t", "=", "M", "o", "v", "i", "e", "+">>

TitlePrefix == <<"M", "o", "v", "i", "e", " ">>

Count(st) == Cardinality(DOMAIN st)

Put(f, k, v) == (k :> v) @@ f

Remove(f, k) == [x \in DOMAIN f \ {k} |-> f[x]]

MaxOf(S) == CHOOSE x \in S : \A y \in S : y <= x

\* A variant of AllocId: the id after the largest one in the table.
AllocIdAfterMax(st, nid) == IF DOMAIN st = {} THEN 1 ELSE MaxOf(DOMAIN st) + 1

\* The id the table gives the next inserted row: the AUTO_INCREMENT counter of
\* the integer primary key.
AllocId(st, nid) == nid

\* A variant of SeedMovie whose rating cycle starts one late.
SeedMovieShifted(i, t) ==
    [title |-> TitlePrefix \o IntStr(i),
     genre |-> Genres[((i - 1) % Len(Genres)) + 1],
     rating |-> (i % 10) + 1,
     image_url |-> UrlPrefix \o IntStr(i),
     created_at |-> t]

\* The i-th placeholder row of seed_if_empty
SeedMovie(i, t) ==
    [title |-> TitlePrefix \o IntStr(i),
     genre |-> Genres[((i - 1) % Len(Genres)) + 1],
     rating |-> ((i - 1) % 10) + 1,
     image_url |-> UrlPrefix \o IntStr(i),
     created_at |-> t]

\* seed_if_empty after its count query returned count: nothing when the count
\* is at least min_count, else rows 1..min_count are added and committed.
SeedAfterCount(count, st, nid, t) ==
    IF count >= MinCount THEN [store |-> st, nextId |-> nid]
    ELSE LET base == AllocId(st, nid)
             ids == base .. (base + MinCount - 1)
         IN  [store |-> st @@ [id \in ids |-> SeedMovie(id - base + 1, t)],
              nextId |-> base + MinCount]

\* seed_if_empty run without interruption
seed_if_empty(st, nid, t) == SeedAfterCount(Count(st), st, nid, t)

\* ensure_db_ready: create_all() leaves rows alone, then seed_if_empty()
ensure_db_ready(st, nid, t) == seed_if_empty(st, nid, t)

\* Movie.to_dict; isoformat() + "Z" is the pair of the time and the suffix
to_dict(id, m) ==
    [id |-> id, title |-> m.title, genre |-> m.genre, rating |-> m.rating,
     imageUrl |-> m.image_url, createdAt |-> <<m.created_at, "Z">>]

\* json_error
json_error(message, status, details) ==
    IF details = Null THEN [status |-> status, body |-> [error |-> message]]
    ELSE [status |-> status, body |-> [error |-> message, details |-> details]]

----------------------------------------------------------------------------
(* validate_movie_payload *)

NoErrors == [f \in {} |-> ""]

\* The inner require(field) of validate_movie_payload
require(errors, data, field) ==
    IF ~Has(data, field) \/ Strip(PyStr(data[field])) = <<>>
    THEN Put(errors, field, "Required")
    ELSE errors

\* A variant of RatingErrors without the range test.
RatingErrorsNoRange(errors, data) ==
    IF ~Has(data, "rating") THEN errors
    ELSE IF ~PyInt(data["rating"]).ok THEN Put(errors, "rating", "Rating must be a number")
    ELSE errors

\* The rating block of validate_movie_payload
RatingErrors(errors, data) ==
    IF ~Has(data, "rating") THEN errors
    ELSE LET r == PyInt(data["rating"])
         IN  IF ~r.ok THEN Put(errors, "rating", "Rating must be a number")
             ELSE IF r.val < 1 \/ r.val > 10
                  THEN Put(errors, "rating", "Rating must be 1-10")
             ELSE errors

\* raised = TRUE stands for the AttributeError of .strip() on a value that is
\* not text: the function returns nothing and the request ends in a 500.
validate_movie_payload(data, partial) ==
    LET e0 == IF partial THEN NoErrors
              ELSE require(require(require(require(NoErrors, data, "title"),
                                           data, "genre"), data, "rating"),
                           data, "imageUrl")
        tv == OrEmpty(data["title"])
        gv == OrEmpty(data["genre"])
        iv == OrEmpty(data["imageUrl"])
        title == Strip(tv.s)
        genre == Strip(gv.s)
        image_url == Strip(iv.s)
        e1 == IF Has(data, "title") /\ Len(title) < 1
              THEN Put(e0, "title", "Title cannot be empty") ELSE e0
        e2 == IF Has(data, "genre") /\ Len(genre) < 1
              THEN Put(e1, "genre", "Genre cannot be empty") ELSE e1
        e3 == IF Has(data, "imageUrl") /\ Len(image_url) < 5
              THEN Put(e2, "imageUrl", "Provide a valid image URL") ELSE e2
    IN  IF tv.t # "str" \/ gv.t # "str" \/ iv.t # "str"
        THEN [raised |-> TRUE, errors |-> NoErrors]
        ELSE [raised |-> FALSE, errors |-> RatingErrors(e3, data)]

ServerError == [status |-> 500, body |-> [error |-> "Internal Server Error"]]

NotFound == json_error("Movie not found", 404, Null)

----------------------------------------------------------------------------
(* Requests, one at a time *)

\* The before_request hook of the request being taken
Hook == ensure_db_ready(store, nextId, now)

\* A request whose hook gave h is answered with rs, leaving table st and
\* counter nid
Answer(h, rq, rs, st, nid) ==
    /\ reqNo' = reqNo + 1
    /\ prev' = [op |-> last.op, id |-> last.id, status |-> resp.status]
    /\ last' = rq
    /\ resp' = rs
    /\ store' = st
    /\ nextId' = nid
    /\ hookStart' = store
    /\ handlerStart' = h.store
    /\ seen' = seen \cup DOMAIN store \cup DOMAIN h.store
    /\ now' = now + 1
    /\ UNCHANGED <<pc, cnt>>

get_movie(movie_id) ==
    LET rq == [op |-> "get", id |-> movie_id]
    IN  \E h \in {Hook} :
        IF movie_id \notin DOMAIN h.store
        THEN Answer(h, rq, NotFound, h.store, h.nextId)
        ELSE Answer(h, rq,
                    [status |-> 200, body |-> to_dict(movie_id, h.store[movie_id])],
                    h.store, h.nextId)

\* The Movie(...) built by create_movie; created_at defaults to utcnow()
NewMovie(data, t) ==
    [title |-> Strip(data["title"].s),
     genre |-> Strip(data["genre"].s),
     rating |-> PyInt(data["rating"]).val,
     image_url |-> Strip(data["imageUrl"].s),
     created_at |-> t]

create_movie(data) ==
    LET rq == [op |-> "create", id |-> 0, data |-> data]
        v == validate_movie_payload(data, FALSE)
    IN  \E h \in {Hook} :
        IF v.raised THEN Answer(h, rq, ServerError, h.store, h.nextId)
        ELSE IF DOMAIN v.errors # {}
        THEN Answer(h, rq, json_error("Validation failed", 400, v.errors),
                    h.store, h.nextId)
        ELSE LET id == AllocId(h.store, h.nextId)
                 m == NewMovie(data, now)
             IN  Answer(h, rq, [status |-> 201, body |-> to_dict(id, m)],
                        Put(h.store, id, m), h.nextId + 1)

\* A variant of ApplyUpdate that also clears the image of a row whose payload
\* carries none.
ApplyUpdateClearing(m, data) ==
    [title |-> IF Has(data, "title") THEN Strip(data["title"].s) ELSE m.title,
     genre |-> IF Has(data, "genre") THEN Strip(data["genre"].s) ELSE m.genre,
     rating |-> IF Has(data, "rating") THEN PyInt(data["rating"]).val ELSE m.rating,
     image_url |-> IF Has(data, "imageUrl") THEN Strip(data["imageUrl"].s) ELSE <<>>,
     created_at |-> m.created_at]

\* The four conditional assignments of update_movie
ApplyUpdate(m, data) ==
    [title |-> IF Has(data, "title") THEN Strip(data["title"].s) ELSE m.title,
     genre |-> IF Has(data, "genre") THEN Strip(data["genre"].s) ELSE m.genre,
     rating |-> IF Has(data, "rating") THEN PyInt(data["rating"]).val ELSE m.rating,
     image_url |-> IF Has(data, "imageUrl") THEN Strip(data["imageUrl"].s)
                   ELSE m.image_url,
     created_at |-> m.created_at]

update_movie(movie_id, data) ==
    LET rq == [op |-> "update", id |-> movie_id, data |-> data]
        v == validate_movie_payload(data, TRUE)
    IN  \E h \in {Hook} :
        IF movie_id \notin DOMAIN h.store
        THEN Answer(h, rq, NotFound, h.store, h.nextId)
        ELSE IF v.raised THEN Answer(h, rq, ServerError, h.store, h.nextId)
        ELSE IF DOMAIN v.errors # {}
        THEN Answer(h, rq, json_error("Validation failed", 400, v.errors),
                    h.store, h.nextId)
        ELSE LET m == ApplyUpdate(h.store[movie_id], data)
             IN  Answer(h, rq, [status |-> 200, body |-> to_dict(movie_id, m)],
                        Put(h.store, movie_id, m), h.nextId)

\* A variant of Remove that leaves the row in the table.
RemoveNothing(f, k) == f

\* session.delete(m); session.commit()
DeleteRow(f, k) == Remove(f, k)

delete_movie(movie_id) ==
    LET rq == [op |-> "delete", id |-> movie_id]
    IN  \E h \in {Hook} :
        IF movie_id \notin DOMAIN h.store
        THEN Answer(h, rq, NotFound, h.store, h.nextId)
        ELSE Answer(h, rq, [status |-> 200, body |-> [status |-> "deleted"]],
                    DeleteRow(h.store, movie_id), h.nextId)

\* request.args.get(name) or default, stripped: the value of a text parameter
ArgText(raw, default) ==
    IF raw.t = "absent" \/ raw.s = <<>> THEN Strip(default) ELSE Strip(raw.s)

\* parse_int_arg; ok = FALSE stands for the ValueError it raises. A bound that
\* is None is passed as hasMin / hasMax = FALSE.
parse_int_arg(raw, default, hasMin, min_v, hasMax, max_v) ==
    IF raw.t = "absent" \/ raw.s = <<>> THEN [ok |-> TRUE, val |-> default]
    ELSE LET r == ParseInt(raw.s)
             lo == IF hasMin /\ r.val < min_v THEN min_v ELSE r.val
             hi == IF hasMax /\ lo > max_v THEN max_v ELSE lo
         IN  IF r.ok THEN [ok |-> TRUE, val |-> hi] ELSE [ok |-> FALSE, val |-> 0]

\* sort_map.get(sort, Movie.created_at)
SortCol(sort) ==
    IF sort = <<"t", "i", "t", "l", "e">> THEN "title"
    ELSE IF sort = <<"g", "e", "n", "r", "e">> THEN "genre"
    ELSE IF sort = <<"r", "a", "t", "i", "n", "g">> THEN "rating"
    ELSE "created_at"

\* The two filters of list_movies on one row
Matches(m, q, genre) ==
    /\ q # <<>> => ILike(m.title, <<"%">> \o q \o <<"%">>)
    /\ genre # <<>> => m.genre = genre

ColLess(col, x, y) ==
    IF col \in {"title", "genre"} THEN StrLess(x[col], y[col]) ELSE x[col] < y[col]

\* Row a comes before row b under order_by(sort_col, Movie.id), both ascending
\* or both descending
Before(st, a, b, col, asc) ==
    IF asc THEN \/ ColLess(col, st[a], st[b])
                \/ st[a][col] = st[b][col] /\ a < b
    ELSE \/ ColLess(col, st[b], st[a])
         \/ st[a][col] = st[b][col] /\ a > b

RECURSIVE SetToSeq(_)
SetToSeq(S) ==
    IF S = {} THEN <<>>
    ELSE LET x == CHOOSE x \in S : TRUE IN <<x>> \o SetToSeq(S \ {x})

\* The ids of the rows in ids in query order
OrderBy(ids, st, col, asc) ==
    SortSeq(SetToSeq(ids), LAMBDA a, b : Before(st, a, b, col, asc))

\* A variant of OffsetOf that skips the asked page as well.
OffsetOfNextPage(page, page_size) == page * page_size

\* The argument of query.offset()
OffsetOf(page, page_size) == (page - 1) * page_size

\* query.offset(n).limit(k).all() on the ordered rows
OffsetLimit(rows, n, k) ==
    LET to == IF n + k < Len(rows) THEN n + k ELSE Len(rows)
    IN  IF n >= Len(rows) THEN <<>> ELSE SubSeq(rows, n + 1, to)

\* The 200 answer of list_movies for the ordered ids of the matching rows
ListBody(st, ordered, page, page_size) ==
    LET total == Len(ordered)
        ids == OffsetLimit(ordered, OffsetOf(page, page_size), page_size)
        total_pages == IF page_size # 0 THEN (total + page_size - 1) \div page_size
                       ELSE 1
    IN  [items |-> [k \in DOMAIN ids |-> to_dict(ids[k], st[ids[k]])],
         total |-> total,
         page |-> page,
         pageSize |-> page_size,
         totalPages |-> total_pages]

\* Each value is bound once it is computed (\E over a one-element set), as the
\* handler computes it once; query.count() is the number of matching rows.
list_movies(args) ==
    LET rq == [op |-> "list", id |-> 0, args |-> args]
        page == parse_int_arg(args.page, 1, TRUE, 1, FALSE, 0)
        page_size == parse_int_arg(args.pageSize, 10, TRUE, 1, TRUE, 50)
        q == ArgText(args.q, <<>>)
        genre == ArgText(args.genre, <<>>)
        sort == ArgText(args.sort, <<"c", "r", "e", "a", "t", "e", "d", "A", "t">>)
        direction == LowerStr(ArgText(args.dir, <<"d", "e", "s", "c">>))
        sort_col == SortCol(sort)
    IN  \E h \in {Hook} :
        IF ~page.ok
        THEN Answer(h, rq, json_error("page must be an integer", 400, Null),
                    h.store, h.nextId)
        ELSE IF ~page_size.ok
        THEN Answer(h, rq, json_error("pageSize must be an integer", 400, Null),
                    h.store, h.nextId)
        ELSE \E query \in {{id \in DOMAIN h.store : Matches(h.store[id], q, genre)}} :
             \E ordered \in {OrderBy(query, h.store, sort_col,
                                     direction = <<"a", "s", "c">>)} :
             \E body \in {ListBody(h.store, ordered, page.val, page_size.val)} :
                Answer(h, rq, [status |-> 200, body |-> body], h.store, h.nextId)

----------------------------------------------------------------------------
(* Requests that overlap: the hook of each worker reads the count, then adds
   and commits its rows, and other workers run in between *)

\* seed_if_empty, the count query
HookCount(w) ==
    /\ pc[w] = "idle"
    /\ reqNo < MaxConcRequests
    /\ reqNo' = reqNo + 1
    /\ cnt' = [cnt EXCEPT ![w] = Count(store)]
    /\ pc' = [pc EXCEPT ![w] = "counted"]
    /\ UNCHANGED <<store, nextId, now, last, resp, prev, hookStart, handlerStart, seen>>

\* seed_if_empty, from the test of the count to the commit
HookSeed(w) ==
    /\ pc[w] = "counted"
    /\ LET r == SeedAfterCount(cnt[w], store, nextId, now)
       IN  store' = r.store /\ nextId' = r.nextId
    /\ pc' = [pc EXCEPT ![w] = "handler"]
    /\ UNCHANGED <<now, reqNo, last, resp, prev, hookStart, handlerStart, seen, cnt>>

\* The route handler of the worker's request: get_movie, which writes nothing
HandlerGet(w, movie_id) ==
    /\ pc[w] = "handler"
    /\ last' = [op |-> "get", id |-> movie_id]
    /\ resp' = IF movie_id \in DOMAIN store
               THEN [status |-> 200, body |-> to_dict(movie_id, store[movie_id])]
               ELSE NotFound
    /\ pc' = [pc EXCEPT ![w] = "idle"]
    /\ now' = now + 1
    /\ UNCHANGED <<store, nextId, reqNo, prev, hookStart, handlerStart, seen, cnt>>

----------------------------------------------------------------------------
(* Inputs *)

\* Ids asked for: the last row of the first seeding, the first row added after
\* it, and an id no row has.
IdChoices == {MinCount, MinCount + 1, 999}

Payload(t, g, r, i) == [title |-> t, genre |-> g, rating |-> r, imageUrl |-> i]

TitleUp == JStr(<<" ", "U", "p", " ">>)
GenreDrama == JStr(<<"D", "r", "a", "m", "a">>)
GoodImage == JStr(<<" ", "a", ".", "p", "n", "g", " ">>)
ShortImage == JStr(<<" ", "a", "b", "c", " ">>)
Blank == JStr(<<" ", " ">>)
NineText == JStr(<<" ", "9", " ">>)
NotANumber == JStr(<<"x">>)

Payloads ==
    { Payload(TitleUp, GenreDrama, JInt(7), GoodImage),
      Payload(Absent, Absent, NineText, Absent),
      Payload(TitleUp, Absent, Absent, Absent),
      Payload(Absent, Absent, Absent, Absent),
      Payload(TitleUp, GenreDrama, JInt(15), GoodImage),
      Payload(TitleUp, GenreDrama, JInt(0), GoodImage),
      Payload(TitleUp, GenreDrama, JInt(1), GoodImage),
      Payload(Absent, Absent, JInt(10), Absent),
      Payload(Absent, Absent, JInt(11), Absent),
      Payload(Blank, Absent, NotANumber, ShortImage),
      Payload(Absent, Absent, JInt(7), ShortImage),
      Payload(Null, GenreDrama, JInt(7), GoodImage),
      Payload(JInt(7), GenreDrama, JInt(15), GoodImage) }

----------------------------------------------------------------------------
(* Specification: requests served one after another on a new database *)

Workers == 1 .. NumWorkers

Init ==
    /\ store = << >>
    /\ nextId = 1
    /\ now = 0
    /\ reqNo = 0
    /\ last = [op |-> "none", id |-> 0]
    /\ resp = [status |-> 0]
    /\ prev = [op |-> "none", id |-> 0, status |-> 0]
    /\ hookStart = << >>
    /\ handlerStart = << >>
    /\ seen = {}
    /\ pc = [w \in Workers |-> "idle"]
    /\ cnt = [w \in Workers |-> 0]

Serving == reqNo < MaxRequests

Next ==
    \/ Serving /\ \E id \in IdChoices : get_movie(id)
    \/ Serving /\ \E d \in Payloads : create_movie(d)
    \/ Serving /\ \E id \in IdChoices, d \in Payloads : update_movie(id, d)
    \/ Serving /\ \E id \in IdChoices : delete_movie(id)

Spec == Init /\ [][Next]_vars

ListArgs ==
    [page : {Absent, JStr(<<"2">>), JStr(<<"0">>), JStr(<<"x">>)},
     pageSize : {Absent, JStr(<<"7">>), JStr(<<"8", "0">>), JStr(<<"-", "3">>)},
     q : {Absent, JStr(<<" ", "E", " ", "1">>)},
     genre : {Absent, JStr(<<"D", "r", "a", "m", "a">>)},
     sort : {Absent, JStr(<<"r", "a", "t", "i", "n", "g">>), JStr(<<"t", "i", "t", "l", "e">>)},
     dir : {Absent, JStr(<<" ", "A", "S", "C">>)}]

\* The writes that prepare the tables that are listed
ListPayloads == {Payload(TitleUp, GenreDrama, JInt(7), GoodImage)}
ListIds == {MinCount}

(* Specification: the list endpoint on the tables a few requests produce.  A
   list request writes nothing, so the table a later request would see is
   reached without it, and no request follows a list request here. *)

Listing == reqNo < MaxListRequests /\ last.op # "list"

NextList ==
    \/ Listing /\ \E a \in ListArgs : list_movies(a)
    \/ Listing /\ \E d \in ListPayloads : create_movie(d)
    \/ Listing /\ \E id \in ListIds : delete_movie(id)

SpecList == Init /\ [][NextList]_vars

(* Specification: overlapping requests on a new database *)

NextConc ==
    \/ \E w \in Workers : HookCount(w)
    \/ \E w \in Workers : HookSeed(w)
    \/ \E w \in Workers, id \in IdChoices : HandlerGet(w, id)

SpecConc == Init /\ [][NextConc]_vars

----------------------------------------------------------------------------
(* Properties *)

Max(a, b) == IF a >= b THEN a ELSE b
Min(a, b) == IF a <= b THEN a ELSE b

\* The i-th smallest element of a set of numbers
Nth(S, i) == CHOOSE x \in S : Cardinality({y \in S : y < x}) = i - 1

\* The validation rules as the specification states them, for one field of a
\* payload: in full mode a missing or blank field fails; a present title or
\* genre fails when its trimmed length is below 1, a present imageUrl when it
\* is below 5, a present rating when it is no integer or is outside 1..10.
\* A number sent for a text field counts by its digits, and null as no text.
TextOf(v) == IF v.t = "str" THEN v.s ELSE IF v.t = "int" THEN IntStr(v.n) ELSE <<>>

IsIntegerValue(v) == v.t = "int" \/ (v.t = "str" /\ ParseInt(v.s).ok)

IntegerValue(v) == IF v.t = "int" THEN v.n ELSE ParseInt(v.s).val

FieldFails(data, f, full) ==
    LET v == data[f]
        missing == v.t = "absent" \/ (v.t = "str" /\ Strip(v.s) = <<>>)
        rule == IF f = "rating"
                THEN ~IsIntegerValue(v) \/ IntegerValue(v) < 1 \/ IntegerValue(v) > 10
                ELSE IF f = "imageUrl" THEN Len(Strip(TextOf(v))) < 5
                ELSE Len(Strip(TextOf(v))) < 1
    IN  (full /\ missing) \/ (v.t # "absent" /\ rule)

FailingFields(data, full) == {f \in Fields : FieldFails(data, f, full)}

\* C1: a successful partial update leaves every field absent from the payload,
\* the id and created_at of the row, and every other row as they were when the
\* handler started; and an update of an existing row with a payload that
\* passes partial validation is successful.
PartialUpdateChangesOnlySupplied ==
    last.op = "update" =>
        LET id == last.id
            d == last.data
            v == validate_movie_payload(d, TRUE)
        IN  /\ (id \in DOMAIN handlerStart /\ ~v.raised /\ DOMAIN v.errors = {})
                   => resp.status = 200
            /\ resp.status = 200 =>
                   /\ DOMAIN store = DOMAIN handlerStart
                   /\ resp.body.id = id
                   /\ ~Has(d, "title") => store[id].title = handlerStart[id].title
                   /\ ~Has(d, "genre") => store[id].genre = handlerStart[id].genre
                   /\ ~Has(d, "rating") => store[id].rating = handlerStart[id].rating
                   /\ ~Has(d, "imageUrl") =>
                          store[id].image_url = handlerStart[id].image_url
                   /\ store[id].created_at = handlerStart[id].created_at
                   /\ \A k \in DOMAIN store \ {id} : store[k] = handlerStart[k]

\* C1 witness: an update carrying only a rating changed that rating.
RatingOnlyUpdateApplied ==
    /\ last.op = "update"
    /\ resp.status = 200
    /\ Has(last.data, "rating")
    /\ ~Has(last.data, "title") /\ ~Has(last.data, "genre") /\ ~Has(last.data, "imageUrl")
    /\ store[last.id].rating # handlerStart[last.id].rating

\* C2: a GET of an id right after a successful DELETE of that id is answered
\* 404, the hook of the GET having run before it.
DeleteThenGetNotFound ==
    (last.op = "get" /\ prev.op = "delete" /\ prev.status = 200 /\ prev.id = last.id)
        => resp.status = 404

\* C2 witness: the delete left fewer than min_count rows, the hook of the GET
\* seeded again, and the GET was answered 404.
GetAfterDeleteReseeded ==
    /\ last.op = "get" /\ prev.op = "delete" /\ prev.status = 200 /\ prev.id = last.id
    /\ Count(hookStart) < MinCount
    /\ Count(handlerStart) > Count(hookStart)
    /\ resp.status = 404

\* C3: a created row is returned with a rating in 1..10 and an id that no row
\* had before, in the table or deleted from it.
CreatedIdUnseen ==
    (last.op = "create" /\ resp.status = 201) =>
        /\ resp.body.rating \in 1 .. 10
        /\ resp.body.id \notin seen
        /\ resp.body.id \notin DOMAIN handlerStart
        /\ resp.body.id \in DOMAIN store

\* C3 witness: a create right after the delete of the row with the largest id.
CreateAfterDeleteOfNewest ==
    /\ last.op = "create" /\ resp.status = 201
    /\ prev.op = "delete" /\ prev.status = 200
    /\ \A id \in DOMAIN handlerStart : id < prev.id

\* C4: a create whose payload fails full validation is answered 400 with an
\* entry in details for every failing field, and the table is as it was when
\* the handler started.
InvalidCreateRejected ==
    (last.op = "create" /\ FailingFields(last.data, TRUE) # {}) =>
        /\ resp.status = 400
        /\ "details" \in DOMAIN resp.body
        /\ FailingFields(last.data, TRUE) \subseteq DOMAIN resp.body.details
        /\ store = handlerStart

\* C5: a list answer holds the window of the matching rows in query order:
\* the rows at positions (page-1)*pageSize+1 .. min(page*pageSize, total),
\* with total the number of matching rows and totalPages its ceiling quotient.
ListWindowExact ==
    (last.op = "list" /\ resp.status = 200) =>
        LET b == resp.body
            a == last.args
            st == handlerStart
            q == ArgText(a.q, <<>>)
            genre == ArgText(a.genre, <<>>)
            col == SortCol(ArgText(a.sort, <<"c", "r", "e", "a", "t", "e", "d", "A", "t">>))
            asc == LowerStr(ArgText(a.dir, <<"d", "e", "s", "c">>)) = <<"a", "s", "c">>
            matching == {id \in DOMAIN st : Matches(st[id], q, genre)}
            offset == (b.page - 1) * b.pageSize
            n == Len(b.items)
            rank(id) == Cardinality({j \in matching : Before(st, j, id, col, asc)})
        IN  /\ b.page >= 1
            /\ b.pageSize \in 1 .. 50
            /\ b.total = Cardinality(matching)
            /\ n = Max(0, Min(b.page * b.pageSize, b.total) - offset)
            /\ \A k \in 1 .. n :
                   /\ b.items[k].id \in matching
                   /\ b.items[k] = to_dict(b.items[k].id, st[b.items[k].id])
            /\ \A k \in 1 .. n - 1 :
                   Before(st, b.items[k].id, b.items[k + 1].id, col, asc)
            /\ n > 0 => /\ rank(b.items[1].id) = offset
                        /\ rank(b.items[n].id) = offset + n - 1
            /\ (b.totalPages - 1) * b.pageSize < b.total
            /\ b.total <= b.totalPages * b.pageSize

\* C5 witness: a second page that is the shorter tail of the matching rows.
ListSecondPageTail ==
    /\ last.op = "list" /\ resp.status = 200
    /\ resp.body.page = 2
    /\ Len(resp.body.items) > 0
    /\ Len(resp.body.items) < resp.body.pageSize

\* C6: the hook run on an empty table leaves at least 30 rows, and the i-th
\* seeded row has rating ((i-1) mod 10)+1, the genre at place (i-1) mod 8 of
\* the list of eight, and an image URL that ends in i and that no other
\* seeded row has.
SeedFromEmpty ==
    (reqNo >= 1 /\ DOMAIN hookStart = {}) =>
        /\ Count(handlerStart) >= 30
        /\ Len(Genres) = 8
        /\ \A i \in 1 .. 30 :
               LET m == handlerStart[Nth(DOMAIN handlerStart, i)]
                   u == m.image_url
               IN  /\ m.rating = ((i - 1) % 10) + 1
                   /\ m.genre = Genres[((i - 1) % 8) + 1]
                   /\ Len(u) > Len(UrlPrefix)
                   /\ SubSeq(u, 1, Len(UrlPrefix)) = UrlPrefix
                   /\ ParseInt(SubSeq(u, Len(UrlPrefix) + 1, Len(u))) =
                          [ok |-> TRUE, val |-> i]
                   /\ \A j \in 1 .. 30 :
                          j # i => handlerStart[Nth(DOMAIN handlerStart, j)].image_url # u

\* C6 witness: the first request found the table empty and its hook seeded it.
FirstRequestSeeded ==
    reqNo = 1 /\ DOMAIN hookStart = {} /\ Count(handlerStart) = MinCount

\* C7: the hook leaves max(c, 30) rows when it starts on c rows, and changes
\* nothing when c >= 30.
SeedTopsUpToThreshold ==
    reqNo >= 1 =>
        /\ Count(handlerStart) = Max(Count(hookStart), MinCount)
        /\ Count(hookStart) >= MinCount => handlerStart = hookStart

\* C8: every row of the table has an integer rating in 1..10, a title and a
\* genre stored trimmed and of length at least 1, and an image URL whose
\* trimmed length is at least 5.
StoredRowsValid ==
    \A id \in DOMAIN store :
        LET m == store[id]
        IN  /\ m.rating \in 1 .. 10
            /\ m.title = Strip(m.title) /\ Len(m.title) >= 1
            /\ m.genre = Strip(m.genre) /\ Len(m.genre) >= 1
            /\ Len(Strip(m.image_url)) >= 5

\* C8 witness: a row was created from text that needed trimming and a rating
\* sent as text, or updated so.
RowWrittenFromUntrimmedText ==
    /\ last.op \in {"create", "update"}
    /\ resp.status \in {200, 201}
    /\ Has(last.data, "title")
    /\ last.data["title"].s # Strip(last.data["title"].s)

\* C9: an update of an id that is not in the table is answered 404 whatever
\* the payload; an update of a row with a payload that fails partial
\* validation is answered 400 with details; the table is unchanged in both.
FailedUpdateChangesNothing ==
    last.op = "update" =>
        /\ last.id \notin DOMAIN handlerStart =>
               resp.status = 404 /\ store = handlerStart
        /\ (last.id \in DOMAIN handlerStart /\ FailingFields(last.data, FALSE) # {}) =>
               /\ resp.status = 400
               /\ "details" \in DOMAIN resp.body
               /\ store = handlerStart

\* C10: no two rows of the table are the same placeholder: the same seeded
\* title with the same seeded image URL.
NoDuplicatePlaceholders ==
    \A a, b \in DOMAIN store :
        (a # b /\ \E i \in 1 .. MinCount :
                      /\ store[a].title = TitlePrefix \o IntStr(i)
                      /\ store[a].image_url = UrlPrefix \o IntStr(i))
            => ~(store[a].title = store[b].title /\ store[a].image_url = store[b].image_url)

====
